---------------------------- MODULE Spec2Model ----------------------------
(***************************************************************************)
(* Model of the transform pipeline of src/main.py: the module-level script *)
(* that filters the state rows of the NST-EST2019 table, melts the         *)
(* POPESTIMATE20xx columns to long form, and derives the New York series,  *)
(* the national totals, the per-year ranks, the summary scalars and the    *)
(* comparison frame.  A DataFrame is a sequence of records (its rows in    *)
(* positional order); a module-level scalar is <<>> while its name is      *)
(* unbound and <<v>> once assigned; pc is the block the script is about    *)
(* to execute.                                                             *)
(*                                                                         *)
(* Input domain: the raw table holds one row per geographic entity (names  *)
(* are unique), every cell is a non-negative integer, and the column       *)
(* labels are distinct.                                                    *)
(***************************************************************************)
EXTENDS Integers, Sequences, FiniteSets, TLC

VARIABLES columns, df_raw, df_states, pop_cols, df_long, ny, us, ny_rank,
          base_pop, last_pop, cagr, peak_pop, peak_year,
          abs_change_2010_2019, comp, show_compare, last_pts, pc, error

vars == <<columns, df_raw, df_states, pop_cols, df_long, ny, us, ny_rank,
          base_pop, last_pop, cagr, peak_pop, peak_year,
          abs_change_2010_2019, comp, show_compare, last_pts, pc, error>>

-----------------------------------------------------------------------------
(* Bounds of the explored inputs *)

\* largest population value of a cell
MaxPop == 2
\* largest number of columns of the raw table
MaxCols == 3
\* largest number of cells (rows x columns) of the raw table
MaxCells == 4

-----------------------------------------------------------------------------
(* Program constants *)

\* SUMLEV value of whole-state rows
StateLevel == 40
\* window of the CAGR
StartYear == 2010
EndYear == 2019
years_span == 9
focus_state == "New York"
compare_states == {"California", "Texas", "Florida", "New York"}

-----------------------------------------------------------------------------
(* Floats: a finite ratio n/d, NaN, or +infinity.  "root" is the symbolic  *)
(* value ((n/d) ** (1/years_span) - 1) * 100.                              *)

Num(n, d) == [k |-> "num", n |-> n, d |-> d]
NaN == [k |-> "nan", n |-> 0, d |-> 1]
Inf == [k |-> "inf", n |-> 0, d |-> 1]
Root(n, d) == [k |-> "root", n |-> n, d |-> d]

\* numpy true division of non-negative integers, times 100
Pct(n, d) ==
    IF d # 0 THEN Num(100 * n, d)
    ELSE IF n = 0 THEN NaN ELSE Inf

-----------------------------------------------------------------------------
(* The input table *)

\* A column label is a stem, the digits that follow it, and a tail.
Label(stem, digits, tail) == [stem |-> stem, digits |-> digits, tail |-> tail]

Labels ==
    { Label("POPESTIMATE", <<2, 0, 1, 0>>, ""),
      Label("POPESTIMATE", <<2, 0, 1, 1>>, ""),
      Label("POPESTIMATE", <<2, 0, 1, 9>>, ""),
      Label("CENSUS", <<2, 0, 1, 0>>, "POP") }

\* The geographic entities a table may hold: NAME, SUMLEV and the STATE
\* code (field STATE_).
Roster ==
    << [NAME |-> "United States", SUMLEV |-> 10, STATE_ |-> 0],
       [NAME |-> "California", SUMLEV |-> 40, STATE_ |-> 6],
       [NAME |-> "New York", SUMLEV |-> 40, STATE_ |-> 36],
       [NAME |-> "Ohio", SUMLEV |-> 40, STATE_ |-> 39],
       [NAME |-> "Texas", SUMLEV |-> 40, STATE_ |-> 48] >>

IsInjective(s) == \A i, j \in 1..Len(s) : s[i] = s[j] => i = j

ColumnLayouts ==
    { s \in UNION { [1..n -> Labels] : n \in 1..MaxCols } : IsInjective(s) }

RECURSIVE SetToSeq(_)
SetToSeq(S) ==
    IF S = {} THEN <<>>
    ELSE LET m == CHOOSE x \in S : \A y \in S : x <= y
         IN  <<m>> \o SetToSeq(S \ {m})

\* The rows of the entities picked, in roster order, with their cells.
RawRows(picked, cells) ==
    LET idx == SetToSeq(picked)
    IN  [ i \in 1..Len(idx) |->
            [NAME |-> Roster[idx[i]].NAME,
             SUMLEV |-> Roster[idx[i]].SUMLEV,
             STATE_ |-> Roster[idx[i]].STATE_,
             cells |-> cells[idx[i]]] ]

-----------------------------------------------------------------------------
(* DataFrame helpers *)

\* the positions at which mask holds, in order
RECURSIVE Keep(_)
Keep(mask) ==
    IF mask = <<>> THEN <<>>
    ELSE LET n == Len(mask)
             front == Keep(SubSeq(mask, 1, n - 1))
         IN  IF mask[n] THEN Append(front, n) ELSE front

\* df[mask]: the rows at which the boolean mask holds, in order
Select(df, mask) ==
    LET idx == Keep(mask)
    IN  [ j \in 1..Len(idx) |-> df[idx[j]] ]

\* the rows of the frames, one frame after the other: melt stacks its value
\* columns this way and merge the matches of its left rows
RECURSIVE Concat(_)
Concat(frames) ==
    IF frames = <<>> THEN <<>>
    ELSE Head(frames) \o Concat(Tail(frames))

\* insertion of position p into an order of positions sorted by keys (after
\* the positions of equal key)
RECURSIVE Insert(_, _, _)
Insert(keys, p, sorted) ==
    IF sorted = <<>> THEN <<p>>
    ELSE IF keys[p] < keys[Head(sorted)] THEN <<p>> \o sorted
    ELSE <<Head(sorted)>> \o Insert(keys, p, Tail(sorted))

RECURSIVE Order(_, _)
Order(keys, n) ==
    IF n = 0 THEN <<>> ELSE Insert(keys, n, Order(keys, n - 1))

\* df.sort_values(...): the rows of df in ascending order of their keys
SortValues(df, keys) ==
    LET ord == Order(keys, Len(df))
    IN  [ j \in 1..Len(df) |-> df[ord[j]] ]

-----------------------------------------------------------------------------
(* Lines 22-35: filter and reshape *)

\* df_raw[df_raw['SUMLEV'] == 40]
StateFilter(raw) ==
    Select(raw, [ i \in 1..Len(raw) |-> raw[i].SUMLEV = StateLevel ])

\* c.startswith('POPESTIMATE20')
IsPopCol(c) ==
    /\ c.stem = "POPESTIMATE"
    /\ Len(c.digits) >= 2
    /\ c.digits[1] = 2
    /\ c.digits[2] = 0

\* positions, in column order, of the columns whose label passes IsPopCol
PopCols(cols) == Keep([ i \in 1..Len(cols) |-> IsPopCol(cols[i]) ])

\* the j-th value column read from the j-th column of the table
MeltByPosition(states, cols, pcols) ==
    Concat([ j \in 1..Len(pcols) |->
             [ i \in 1..Len(states) |->
                 [NAME |-> states[i].NAME,
                  STATE_ |-> states[i].STATE_,
                  year |-> cols[pcols[j]],
                  population |-> states[i].cells[j]] ] ])

\* .melt(id_vars=['NAME', 'STATE'], var_name='year', value_name='population'):
\* column-major, one row per (row, value column); 'year' holds the label
Melt(states, cols, pcols) ==
    Concat([ j \in 1..Len(pcols) |->
             [ i \in 1..Len(states) |->
                 [NAME |-> states[i].NAME,
                  STATE_ |-> states[i].STATE_,
                  year |-> cols[pcols[j]],
                  population |-> states[i].cells[pcols[j]]] ] ])

\* .str.extract(r'(\d{4})').astype(int): the first four digits, as a number
ExtractYear(c) ==
    1000 * c.digits[1] + 100 * c.digits[2] + 10 * c.digits[3] + c.digits[4]

\* lines 34-35: parse the year, rename NAME to state
Tidy(melted) ==
    [ i \in 1..Len(melted) |->
        [state |-> melted[i].NAME,
         STATE_ |-> melted[i].STATE_,
         year |-> ExtractYear(melted[i].year),
         population |-> melted[i].population] ]

-----------------------------------------------------------------------------
(* Lines 40-59: the focus series, national totals and ranks *)

\* df_long[df_long['state'] == 'New York'][['year', 'population']]
\*   .sort_values('year').reset_index(drop=True)
FocusRows(long) ==
    LET sel == Select(long, [ i \in 1..Len(long) |-> long[i].state = focus_state ])
        proj == [ i \in 1..Len(sel) |->
                    [year |-> sel[i].year, population |-> sel[i].population] ]
    IN  SortValues(proj, [ i \in 1..Len(proj) |-> proj[i].year ])

\* a group keeps the last population instead of the running sum
RECURSIVE AddToGroupOverwrite(_, _)
AddToGroupOverwrite(groups, r) ==
    IF groups = <<>>
    THEN << [year |-> r.year, us_population |-> r.population] >>
    ELSE IF Head(groups).year = r.year
    THEN << [year |-> r.year, us_population |-> r.population] >>
         \o Tail(groups)
    ELSE <<Head(groups)>> \o AddToGroupOverwrite(Tail(groups), r)

\* one step of the group-by accumulation: add r to the group of its year
RECURSIVE AddToGroup(_, _)
AddToGroup(groups, r) ==
    IF groups = <<>>
    THEN << [year |-> r.year, us_population |-> r.population] >>
    ELSE IF Head(groups).year = r.year
    THEN << [year |-> r.year,
             us_population |-> Head(groups).us_population + r.population] >>
         \o Tail(groups)
    ELSE <<Head(groups)>> \o AddToGroup(Tail(groups), r)

RECURSIVE Accumulate(_)
Accumulate(long) ==
    IF long = <<>> THEN <<>>
    ELSE AddToGroup(Accumulate(SubSeq(long, 1, Len(long) - 1)), long[Len(long)])

\* df_long.groupby('year', as_index=False)['population'].sum(): groups come
\* out in ascending key order
NationalSeries(long) ==
    LET groups == Accumulate(long)
    IN  SortValues(groups, [ i \in 1..Len(groups) |-> groups[i].year ])

\* rank(ascending=False, method='min') inside one group: the values are put
\* in descending order and a value gets the first position it occupies
RECURSIVE InsertDesc(_, _)
InsertDesc(v, sorted) ==
    IF sorted = <<>> THEN <<v>>
    ELSE IF v > Head(sorted) THEN <<v>> \o sorted
    ELSE <<Head(sorted)>> \o InsertDesc(v, Tail(sorted))

RECURSIVE SortDesc(_)
SortDesc(vals) ==
    IF vals = <<>> THEN <<>>
    ELSE InsertDesc(Head(vals), SortDesc(Tail(vals)))

RECURSIVE FirstPos(_, _)
FirstPos(v, sorted) ==
    IF Head(sorted) = v THEN 1 ELSE 1 + FirstPos(v, Tail(sorted))

\* dense ranking: 1 plus the number of distinct greater values
RankDense(v, group) == 1 + Cardinality({ group[j] : j \in 1..Len(group) } \cap { w \in 0..(MaxPop + 1) : w > v })

RankMin(v, group) == FirstPos(v, SortDesc(group))

\* df_long.groupby('year')['population'].rank(ascending=False, method='min')
RankSeries(long) ==
    [ i \in 1..Len(long) |->
        LET grp == Select(long, [ j \in 1..Len(long) |-> long[j].year = long[i].year ])
            vals == [ j \in 1..Len(grp) |-> grp[j].population ]
        IN  [state |-> long[i].state,
             STATE_ |-> long[i].STATE_,
             year |-> long[i].year,
             population |-> long[i].population,
             rank |-> RankMin(long[i].population, vals)] ]

\* df_long[df_long['state'] == 'New York'][['year', 'rank']]
FocusRanks(long) ==
    LET sel == Select(long, [ i \in 1..Len(long) |-> long[i].state = focus_state ])
    IN  [ i \in 1..Len(sel) |-> [year |-> sel[i].year, rank |-> sel[i].rank] ]

\* ny.merge(us, on='year', how='left').merge(ny_rank, on='year', how='left')
\* and the share column of line 55.  A left row without a match keeps NaN.
MergeFocus(focus, national, ranks) ==
    LET WithUs(r) ==
            LET m == Select(national,
                            [ j \in 1..Len(national) |-> national[j].year = r.year ])
            IN  IF m = <<>>
                THEN << [year |-> r.year, population |-> r.population,
                         us_population |-> NaN] >>
                ELSE [ j \in 1..Len(m) |->
                         [year |-> r.year, population |-> r.population,
                          us_population |-> Num(m[j].us_population, 1)] ]
        step1 == Concat([ i \in 1..Len(focus) |-> WithUs(focus[i]) ])
        WithRank(r) ==
            LET m == Select(ranks,
                            [ j \in 1..Len(ranks) |-> ranks[j].year = r.year ])
            IN  IF m = <<>>
                THEN << [year |-> r.year, population |-> r.population,
                         us_population |-> r.us_population, rank |-> NaN] >>
                ELSE [ j \in 1..Len(m) |->
                         [year |-> r.year, population |-> r.population,
                          us_population |-> r.us_population,
                          rank |-> Num(m[j].rank, 1)] ]
    IN  Concat([ i \in 1..Len(step1) |-> WithRank(step1[i]) ])

\* ny['share_of_us_%'] = (ny['population'] / ny['us_population']) * 100
Share(population, us_population) ==
    IF us_population.k = "nan" THEN NaN
    ELSE Pct(population, us_population.n)

WithShare(focus) ==
    [ i \in 1..Len(focus) |->
        [year |-> focus[i].year,
         population |-> focus[i].population,
         us_population |-> focus[i].us_population,
         rank |-> focus[i].rank,
         share_of_us |-> Share(focus[i].population, focus[i].us_population)] ]

\* the difference taken the wrong way round
DiffReversed(focus, i) ==
    IF i = 1 THEN NaN
    ELSE Num(focus[i - 1].population - focus[i].population, 1)

\* ny['population'].diff(): the difference to the row before, by position
Diff(focus, i) ==
    IF i = 1 THEN NaN
    ELSE Num(focus[i].population - focus[i - 1].population, 1)

\* ny['population'].pct_change() * 100: the ratio to the row before, less one
PctChange(focus, i) ==
    IF i = 1 THEN NaN
    ELSE Pct(focus[i].population - focus[i - 1].population,
             focus[i - 1].population)

WithYoY(focus) ==
    [ i \in 1..Len(focus) |->
        [year |-> focus[i].year,
         population |-> focus[i].population,
         us_population |-> focus[i].us_population,
         rank |-> focus[i].rank,
         share_of_us |-> focus[i].share_of_us,
         yoy_change |-> Diff(focus, i),
         yoy_pct |-> PctChange(focus, i)] ]

-----------------------------------------------------------------------------
(* Lines 61-77: summary scalars and the comparison frame *)

\* ny.loc[ny['year'] == y, 'population']: the populations of the rows of year y
PopAt(focus, y) ==
    LET sel == Select(focus, [ i \in 1..Len(focus) |-> focus[i].year = y ])
    IN  [ i \in 1..Len(sel) |-> sel[i].population ]

\* .iloc[0] on an empty selection
IndexError(line) ==
    [type |-> "IndexError",
     message |-> "single positional indexer is out-of-bounds",
     line |-> line]

\* ((last_pop / base_pop) ** (1/years_span) - 1) * 100 on numpy integers:
\* a zero divisor gives inf or nan (with a warning), not an exception
Cagr(last, base) ==
    IF base # 0 THEN Root(last, base)
    ELSE IF last = 0 THEN NaN ELSE Inf

\* ny['population'].idxmax(): the position of the first occurrence of the
\* largest value, found by a left-to-right scan
RECURSIVE IdxMaxFrom(_, _, _)
IdxMaxFrom(focus, best, i) ==
    IF i > Len(focus) THEN best
    ELSE IF focus[i].population > focus[best].population
    THEN IdxMaxFrom(focus, i, i + 1)
    ELSE IdxMaxFrom(focus, best, i + 1)

\* the position of the last occurrence of the largest value
RECURSIVE IdxMaxLastFrom(_, _, _)
IdxMaxLastFrom(focus, best, i) ==
    IF i > Len(focus) THEN best
    ELSE IF focus[i].population >= focus[best].population
    THEN IdxMaxLastFrom(focus, i, i + 1)
    ELSE IdxMaxLastFrom(focus, best, i + 1)

IdxMaxLast(focus) == IdxMaxLastFrom(focus, 1, 2)

IdxMax(focus) == IdxMaxFrom(focus, 1, 2)

\* df_long[df_long['state'].isin(compare_states)]
\*   [['state', 'year', 'population', 'rank']].sort_values(['state', 'year'])
StateOrder(name) ==
    CASE name = "California" -> 1
      [] name = "Florida" -> 2
      [] name = "New York" -> 3
      [] name = "Ohio" -> 4
      [] name = "Texas" -> 5
      [] OTHER -> 6

Comparison(long) ==
    LET sel == Select(long,
                      [ i \in 1..Len(long) |-> long[i].state \in compare_states ])
        proj == [ i \in 1..Len(sel) |->
                    [state |-> sel[i].state, year |-> sel[i].year,
                     population |-> sel[i].population, rank |-> sel[i].rank] ]
    IN  SortValues(proj,
                   [ i \in 1..Len(proj) |->
                       10000 * StateOrder(proj[i].state) + proj[i].year ])

\* the year of the first row instead of the largest year
MaxYearFirst(frame) ==
    IF frame = <<>> THEN <<>> ELSE << Head(frame).year >>

\* comp['year'].max(), by a scan; <<>> (NaN) for an empty frame
RECURSIVE MaxYear(_)
MaxYear(frame) ==
    IF frame = <<>> THEN <<>>
    ELSE LET rest == MaxYear(Tail(frame))
         IN  IF rest = <<>> \/ Head(frame).year >= rest[1]
             THEN << Head(frame).year >>
             ELSE rest

\* comp[comp['year'] == last_year]
LastPoints(frame) ==
    LET last_year == MaxYear(frame)
    IN  IF last_year = <<>> THEN <<>>
        ELSE Select(frame,
                    [ i \in 1..Len(frame) |-> frame[i].year = last_year[1] ])

-----------------------------------------------------------------------------
(* The script, block by block *)

Init ==
    /\ columns \in ColumnLayouts
    /\ \E picked \in SUBSET (1..Len(Roster)) :
         /\ Cardinality(picked) * Len(columns) <= MaxCells
         /\ \E cells \in [picked -> [1..Len(columns) -> 0..MaxPop]] :
              df_raw = RawRows(picked, cells)
    /\ df_states = <<>>
    /\ pop_cols = <<>>
    /\ df_long = <<>>
    /\ ny = <<>>
    /\ us = <<>>
    /\ ny_rank = <<>>
    /\ base_pop = <<>>
    /\ last_pop = <<>>
    /\ cagr = <<>>
    /\ peak_pop = <<>>
    /\ peak_year = <<>>
    /\ abs_change_2010_2019 = <<>>
    /\ comp = <<>>
    /\ show_compare = TRUE
    /\ last_pts = <<>>
    /\ pc = "filter"
    /\ error = <<>>

\* line 23
Filter ==
    /\ pc = "filter"
    /\ df_states' = StateFilter(df_raw)
    /\ pc' = "reshape"
    /\ UNCHANGED <<columns, df_raw, pop_cols, df_long, ny, us, ny_rank,
                   base_pop, last_pop, cagr, peak_pop, peak_year,
                   abs_change_2010_2019, comp, show_compare, last_pts, error>>

\* lines 26-35
Reshape ==
    /\ pc = "reshape"
    /\ pop_cols' = PopCols(columns)
    /\ df_long' = Tidy(Melt(df_states, columns, PopCols(columns)))
    /\ pc' = "focus"
    /\ UNCHANGED <<columns, df_raw, df_states, ny, us, ny_rank,
                   base_pop, last_pop, cagr, peak_pop, peak_year,
                   abs_change_2010_2019, comp, show_compare, last_pts, error>>

\* line 40
Focus ==
    /\ pc = "focus"
    /\ ny' = FocusRows(df_long)
    /\ pc' = "national"
    /\ UNCHANGED <<columns, df_raw, df_states, pop_cols, df_long, us, ny_rank,
                   base_pop, last_pop, cagr, peak_pop, peak_year,
                   abs_change_2010_2019, comp, show_compare, last_pts, error>>

\* lines 43-47
National ==
    /\ pc = "national"
    /\ us' = NationalSeries(df_long)
    /\ pc' = "rank"
    /\ UNCHANGED <<columns, df_raw, df_states, pop_cols, df_long, ny, ny_rank,
                   base_pop, last_pop, cagr, peak_pop, peak_year,
                   abs_change_2010_2019, comp, show_compare, last_pts, error>>

\* lines 50-51
Rank ==
    /\ pc = "rank"
    /\ df_long' = RankSeries(df_long)
    /\ ny_rank' = FocusRanks(RankSeries(df_long))
    /\ pc' = "merge"
    /\ UNCHANGED <<columns, df_raw, df_states, pop_cols, ny, us,
                   base_pop, last_pop, cagr, peak_pop, peak_year,
                   abs_change_2010_2019, comp, show_compare, last_pts, error>>

\* lines 54-55
Merge ==
    /\ pc = "merge"
    /\ ny' = WithShare(MergeFocus(ny, us, ny_rank))
    /\ pc' = "yoy"
    /\ UNCHANGED <<columns, df_raw, df_states, pop_cols, df_long, us, ny_rank,
                   base_pop, last_pop, cagr, peak_pop, peak_year,
                   abs_change_2010_2019, comp, show_compare, last_pts, error>>

\* lines 58-59
YoY ==
    /\ pc = "yoy"
    /\ ny' = WithYoY(ny)
    /\ pc' = "summary"
    /\ UNCHANGED <<columns, df_raw, df_states, pop_cols, df_long, us, ny_rank,
                   base_pop, last_pop, cagr, peak_pop, peak_year,
                   abs_change_2010_2019, comp, show_compare, last_pts, error>>

\* lines 62-70, every .iloc[0] finding a row
Summary ==
    /\ pc = "summary"
    /\ PopAt(ny, StartYear) # <<>>
    /\ PopAt(ny, EndYear) # <<>>
    /\ LET base == PopAt(ny, StartYear)[1]
           last == PopAt(ny, EndYear)[1]
           peak_row == ny[IdxMax(ny)]
       IN  /\ base_pop' = <<base>>
           /\ last_pop' = <<last>>
           /\ cagr' = << Cagr(last, base) >>
           /\ peak_pop' = << peak_row.population >>
           /\ peak_year' = << peak_row.year >>
           /\ abs_change_2010_2019' = << last - base >>
    /\ pc' = "compare"
    /\ UNCHANGED <<columns, df_raw, df_states, pop_cols, df_long, ny, us,
                   ny_rank, comp, show_compare, last_pts, error>>

\* line 62 raises: no row of year 2010
SummaryFailStart ==
    /\ pc = "summary"
    /\ PopAt(ny, StartYear) = <<>>
    /\ error' = << IndexError(62) >>
    /\ pc' = "failed"
    /\ UNCHANGED <<columns, df_raw, df_states, pop_cols, df_long, ny, us,
                   ny_rank, base_pop, last_pop, cagr, peak_pop, peak_year,
                   abs_change_2010_2019, comp, show_compare, last_pts>>

\* line 62 binds base_pop, line 63 raises: no row of year 2019
SummaryFailEnd ==
    /\ pc = "summary"
    /\ PopAt(ny, StartYear) # <<>>
    /\ PopAt(ny, EndYear) = <<>>
    /\ base_pop' = << PopAt(ny, StartYear)[1] >>
    /\ error' = << IndexError(63) >>
    /\ pc' = "failed"
    /\ UNCHANGED <<columns, df_raw, df_states, pop_cols, df_long, ny, us,
                   ny_rank, last_pop, cagr, peak_pop, peak_year,
                   abs_change_2010_2019, comp, show_compare, last_pts>>

\* lines 73-77
Compare ==
    /\ pc = "compare"
    /\ comp' = Comparison(df_long)
    /\ pc' = "sidebar"
    /\ UNCHANGED <<columns, df_raw, df_states, pop_cols, df_long, ny, us,
                   ny_rank, base_pop, last_pop, cagr, peak_pop, peak_year,
                   abs_change_2010_2019, show_compare, last_pts, error>>

\* line 97: the checkbox
Sidebar ==
    /\ pc = "sidebar"
    /\ \E checked \in BOOLEAN : show_compare' = checked
    /\ pc' = "labels"
    /\ UNCHANGED <<columns, df_raw, df_states, pop_cols, df_long, ny, us,
                   ny_rank, base_pop, last_pop, cagr, peak_pop, peak_year,
                   abs_change_2010_2019, comp, last_pts, error>>

\* lines 166-181
LabelPoints ==
    /\ pc = "labels"
    /\ last_pts' = IF show_compare THEN LastPoints(comp) ELSE last_pts
    /\ pc' = "done"
    /\ UNCHANGED <<columns, df_raw, df_states, pop_cols, df_long, ny, us,
                   ny_rank, base_pop, last_pop, cagr, peak_pop, peak_year,
                   abs_change_2010_2019, comp, show_compare, error>>

Next ==
    \/ Filter
    \/ Reshape
    \/ Focus
    \/ National
    \/ Rank
    \/ Merge
    \/ YoY
    \/ Summary
    \/ SummaryFailStart
    \/ SummaryFailEnd
    \/ Compare
    \/ Sidebar
    \/ LabelPoints

Spec == Init /\ [][Next]_vars

-----------------------------------------------------------------------------
(* Properties *)

\* the position of a block in the script; "failed" is the summary block
\* having raised
StageNo(p) ==
    CASE p = "filter" -> 1
      [] p = "reshape" -> 2
      [] p = "focus" -> 3
      [] p = "national" -> 4
      [] p = "rank" -> 5
      [] p = "merge" -> 6
      [] p = "yoy" -> 7
      [] p = "summary" -> 8
      [] p = "failed" -> 9
      [] p = "compare" -> 9
      [] p = "sidebar" -> 10
      [] p = "labels" -> 11
      [] p = "done" -> 12

\* the block named has been executed
Executed(block) == StageNo(pc) > StageNo(block)

RECURSIVE SumOver(_, _)
SumOver(f, S) ==
    IF S = {} THEN 0
    ELSE LET x == CHOOSE y \in S : TRUE
         IN  f[x] + SumOver(f, S \ {x})

Rows(frame) == 1..Len(frame)

HasYear(frame, y) == \E j \in Rows(frame) : frame[j].year = y

\* C1: once the ranks are attached, the rank of every tidy row is 1 plus the
\* number of rows of the same year with a strictly greater population; so
\* rows tied in a year share their rank, the next lower population gets the
\* tied rank plus the number of tied rows, and a rank-1 row has a population
\* at least that of every row of its year.
C1_RankIsCompetitionRank ==
    Executed("rank") =>
        \A i \in Rows(df_long) :
            LET same == { j \in Rows(df_long) : df_long[j].year = df_long[i].year }
                above == { j \in same :
                             df_long[j].population > df_long[i].population }
                tied == { j \in same :
                            df_long[j].population = df_long[i].population }
            IN  /\ df_long[i].rank = 1 + Cardinality(above)
                /\ \A j \in tied : df_long[j].rank = df_long[i].rank
                /\ \A j \in same :
                     (/\ df_long[j].population < df_long[i].population
                      /\ \A k \in same :
                           ~ (/\ df_long[k].population > df_long[j].population
                              /\ df_long[k].population < df_long[i].population))
                     => df_long[j].rank = df_long[i].rank + Cardinality(tied)
                /\ df_long[i].rank = 1 =>
                     \A j \in same :
                        df_long[i].population >= df_long[j].population

\* two states tied for first in a year, and a third below them ranked 3
C1_Witness ==
    /\ Executed("rank")
    /\ \E i, j, k \in Rows(df_long) :
         /\ i # j
         /\ df_long[i].year = df_long[j].year
         /\ df_long[i].year = df_long[k].year
         /\ df_long[i].population = df_long[j].population
         /\ df_long[k].population < df_long[i].population
         /\ df_long[i].rank = 1
         /\ df_long[k].rank = 3

\* C2: once the year-over-year columns are computed, the focus series is in
\* ascending year order, its first row has yoy_change and yoy_pct undefined,
\* and every later row of a year Y whose prior year Y-1 is in the series has
\* yoy_change = population(Y) - population(Y-1).
C2_YoYChange ==
    Executed("yoy") =>
        /\ \A i, j \in Rows(ny) : i < j => ny[i].year < ny[j].year
        /\ ny # <<>> => (ny[1].yoy_change = NaN /\ ny[1].yoy_pct = NaN)
        /\ \A i \in Rows(ny) : \A j \in Rows(ny) :
             (i > 1 /\ ny[j].year = ny[i].year - 1) =>
                ny[i].yoy_change = Num(ny[i].population - ny[j].population, 1)

\* a later row whose prior year is present, with a non-zero change
C2_Witness ==
    /\ Executed("yoy")
    /\ Len(ny) >= 2
    /\ ny[2].year = ny[1].year + 1
    /\ ny[2].yoy_change.k = "num"
    /\ ny[2].yoy_change.n # 0

\* C3: a row of the focus series whose prior calendar year is absent from
\* the series has yoy_change and yoy_pct undefined.
C3_GapUndefined ==
    Executed("yoy") =>
        \A i \in Rows(ny) :
            ~ HasYear(ny, ny[i].year - 1) =>
                (ny[i].yoy_change = NaN /\ ny[i].yoy_pct = NaN)

\* C4: once the national series is built, it has exactly one row for every
\* year of the tidy observations and no other row, and the total of a year is
\* the sum of the populations of the tidy rows of that year; the focus
\* series carries that total as the denominator of its share.
C4_NationalTotals ==
    /\ Executed("national") =>
         /\ \A i \in Rows(df_long) : HasYear(us, df_long[i].year)
         /\ \A i, j \in Rows(us) : us[i].year = us[j].year => i = j
         /\ \A i \in Rows(us) :
              /\ HasYear(df_long, us[i].year)
              /\ us[i].us_population =
                   SumOver([ j \in Rows(df_long) |-> df_long[j].population ],
                           { j \in Rows(df_long) : df_long[j].year = us[i].year })
    /\ Executed("merge") =>
         \A i \in Rows(ny) :
            LET total ==
                  SumOver([ j \in Rows(df_long) |-> df_long[j].population ],
                          { j \in Rows(df_long) : df_long[j].year = ny[i].year })
            IN  /\ ny[i].us_population = Num(total, 1)
                /\ ny[i].share_of_us = Pct(ny[i].population, total)

\* two years, and a total that is the sum of two non-zero populations
C4_Witness ==
    /\ Executed("merge")
    /\ Len(us) = 2
    /\ \E i, j \in Rows(df_long) :
         /\ i # j
         /\ df_long[i].year = df_long[j].year
         /\ df_long[i].population > 0
         /\ df_long[j].population > 0
         /\ df_long[i].state = focus_state
         /\ \E u \in Rows(us) :
              /\ us[u].year = df_long[i].year
              /\ us[u].us_population =
                   df_long[i].population + df_long[j].population

\* the error the claims C5 and C6 ask for
MissingYearError(bound) == [type |-> "MissingYearError", bound |-> bound]
EmptyFilterResult(criteria) == [type |-> "EmptyFilterResult", criteria |-> criteria]

NoSummaryScalars ==
    /\ cagr = <<>>
    /\ abs_change_2010_2019 = <<>>
    /\ peak_pop = <<>>
    /\ peak_year = <<>>

\* C5: once the summary block has run on a focus series without a row for
\* the window start year or without a row for the window end year, the
\* script has failed, the error names a bound that is missing, and no
\* summary scalar is bound.  (Stated for a focus series that has rows; the
\* series without any row is the case of C6.)
C5_MissingYearReported ==
    (/\ Executed("summary")
     /\ ny # <<>>
     /\ ~ (HasYear(ny, StartYear) /\ HasYear(ny, EndYear))) =>
        /\ pc = "failed"
        /\ NoSummaryScalars
        /\ \/ ~ HasYear(ny, StartYear) /\ error = << MissingYearError("start") >>
           \/ ~ HasYear(ny, EndYear) /\ error = << MissingYearError("end") >>

\* C6: the script does not go on past an empty state filter or an empty
\* focus-state lookup; it stops with an empty-filter error that carries the
\* filter criteria.
C6_EmptyFilterReported ==
    /\ (Executed("filter") /\ df_states = <<>>) =>
          error = << EmptyFilterResult([SUMLEV |-> StateLevel]) >>
    /\ (Executed("focus") /\ df_states # <<>> /\ ny = <<>>) =>
          error = << EmptyFilterResult([state |-> focus_state]) >>

\* C7: a row of the focus series after the first whose preceding population
\* is zero has yoy_pct undefined.
C7_ZeroPriorUndefined ==
    Executed("yoy") =>
        \A i \in Rows(ny) :
            (i > 1 /\ ny[i - 1].population = 0) => ny[i].yoy_pct = NaN

\* C8: once the label points are built, they are rows of the comparison
\* frame, and every state of the comparison frame has exactly one of them:
\* its row with the largest year.
C8_LabelPoints ==
    (Executed("labels") /\ show_compare) =>
        /\ \A p \in Rows(last_pts) : \E c \in Rows(comp) : comp[c] = last_pts[p]
        /\ \A c \in Rows(comp) :
             /\ \E p \in Rows(last_pts) : last_pts[p].state = comp[c].state
             /\ \A p, q \in Rows(last_pts) :
                  last_pts[p].state = last_pts[q].state => p = q
             /\ \A p \in Rows(last_pts) :
                  last_pts[p].state = comp[c].state =>
                     last_pts[p].year >= comp[c].year

\* two compared states, each with an earlier row besides its label point
C8_Witness ==
    /\ Executed("labels")
    /\ show_compare
    /\ Len(last_pts) = 2
    /\ Len(comp) = 4
    /\ last_pts[1].state # last_pts[2].state

\* the label of the year column a tidy year came from
ColumnOfYear(y) ==
    Label("POPESTIMATE",
          << y \div 1000, (y \div 100) % 10, (y \div 10) % 10, y % 10 >>, "")

\* C9: the tidy frame has one row per (state row, year column), (state,
\* year) is a key of it, and the cell of every state-level row of the raw
\* table in every POPESTIMATE20xx column is the population of the tidy row
\* of that state and that column's year.
C9_ReshapeRoundTrip ==
    Executed("reshape") =>
        LET yearcols == { c \in Rows(columns) :
                            /\ columns[c].stem = "POPESTIMATE"
                            /\ SubSeq(columns[c].digits, 1, 2) = <<2, 0>> }
            staterows == { i \in Rows(df_raw) : df_raw[i].SUMLEV = StateLevel }
        IN  /\ Len(df_long) = Cardinality(staterows) * Cardinality(yearcols)
            /\ \A k, l \in Rows(df_long) :
                 (/\ df_long[k].state = df_long[l].state
                  /\ df_long[k].year = df_long[l].year) => k = l
            /\ \A i \in staterows : \A c \in yearcols :
                 \E k \in Rows(df_long) :
                    /\ df_long[k].state = df_raw[i].NAME
                    /\ ColumnOfYear(df_long[k].year) = columns[c]
                    /\ df_long[k].population = df_raw[i].cells[c]

\* two state rows in a table whose first column is no year column and whose
\* second is one, the two cells of the first row differing
C9_Witness ==
    /\ Executed("reshape")
    /\ Len(columns) = 2
    /\ ~ IsPopCol(columns[1])
    /\ Len(df_states) = 2
    /\ Len(df_long) = 2
    /\ df_raw[1].cells[1] # df_raw[1].cells[2]

\* C10: peak_pop is the largest population of the focus series, and
\* peak_year is the earliest year of the series with that population.
C10_Peak ==
    Executed("summary") /\ pc # "failed" =>
        /\ \A i \in Rows(ny) : ny[i].population <= peak_pop[1]
        /\ \E i \in Rows(ny) :
             /\ ny[i].population = peak_pop[1]
             /\ ny[i].year = peak_year[1]
        /\ \A i \in Rows(ny) :
             ny[i].population = peak_pop[1] => ny[i].year >= peak_year[1]

\* the peak lies between the window's ends, above the start and tied with
\* the end
C10_Witness ==
    /\ Executed("summary")
    /\ pc # "failed"
    /\ Len(ny) = 3
    /\ peak_year[1] = 2011
    /\ peak_pop[1] > base_pop[1]
    /\ peak_pop[1] = last_pop[1]

=============================================================================
